---- MODULE Spec2Model ----
(***************************************************************************)
(* Shell construction and nearest-neighbour selection of                   *)
(* solvation_analysis/solvation.py, as a state machine.                    *)
(*                                                                         *)
(* A Universe is a frame of NAtoms atoms on a periodic line of length Box  *)
(* (an orthorhombic box acts per axis; one axis is modelled).  Every atom  *)
(* has an integer position, a mass and the resid of the one residue        *)
(* (molecule) it belongs to.  A centre of mass is a rational num/den, and  *)
(* every distance to it is kept as a numerator over the same den, so that  *)
(* no rounding enters a comparison.  One behaviour is one call of one      *)
(* public function on one frame; the nested calls that get_closest_n_mol   *)
(* makes on itself are steps of that behaviour.                            *)
(***************************************************************************)
EXTENDS Integers, Sequences, FiniteSets, TLC

\* bounds of the model
NAtoms == 3
Box == 5
MaxMass == 2
\* an initial radius beyond half the box already holds every atom
MaxRadius == Box \div 2
\* n_mol + 1 residues exist for some n_mol asked, and for some they do not
MaxNMol == NAtoms - 1
\* no atom is farther than half the box from any point, so a radius that
\* started at 1 or more holds every atom after this many increments
CoverExpansions == Box \div 2
\* the nested calls of get_closest_n_mol followed before the model stops
MaxExpansions == CoverExpansions + 1

\* solvation.py:80  "if n_shell > 3"
WarnNShell == 3
MaxNShell == WarnNShell + 1

VARIABLES
    positions,  \* u.atoms.positions: atom -> coordinate in 0..Box-1
    resids,     \* u.atoms.resids: atom -> resid of its residue
    masses,     \* u.atoms.masses: atom -> mass
    pc,         \* "ready", "nested" (a nested call is pending), "returned", "raised"
    func,       \* the public function called
    args,       \* the arguments of the innermost call
    result,     \* what the call returned or raised
    queries,    \* 'point' selections issued since the outermost call began
    warned,     \* warnings.warn was called
    depth       \* nested calls of get_closest_n_mol made so far

vars == <<positions, resids, masses, pc, func, args, result, queries, warned, depth>>
frame == <<positions, resids, masses>>

Atoms == 1..NAtoms

----------------------------------------------------------------------------
(* sequences and numbers *)

Range(s) == {s[i] : i \in DOMAIN s}
Abs(x) == IF x < 0 THEN -x ELSE x
Min2(a, b) == IF a <= b THEN a ELSE b
SetMin(S) == CHOOSE x \in S : \A y \in S : x <= y
Take(s, k) == SubSeq(s, 1, Min2(k, Len(s)))
Gather(s, ix) == [i \in 1..Len(ix) |-> s[ix[i]]]

RECURSIVE SortedSeq(_)
SortedSeq(S) == IF S = {} THEN <<>> ELSE <<SetMin(S)>> \o SortedSeq(S \ {SetMin(S)})

RECURSIVE Insert(_, _)
Insert(x, s) ==
    IF s = <<>> THEN <<x>>
    ELSE IF x <= Head(s) THEN <<x>> \o s ELSE <<Head(s)>> \o Insert(x, Tail(s))

\* np.sort
RECURSIVE np_sort(_)
np_sort(s) == IF s = <<>> THEN <<>> ELSE Insert(Head(s), np_sort(Tail(s)))

\* np.unique(a): the sorted distinct values
np_unique(a) == SortedSeq(Range(a))

\* np.unique(a, return_index=True)[1]: for each distinct value, in the order of
\* the sorted values, the index of its first occurrence in a
np_unique_index(a) ==
    LET vals == np_unique(a)
    IN [k \in 1..Len(vals) |-> SetMin({i \in DOMAIN a : a[i] = vals[k]})]

\* np.argsort(radii), default kind (quicksort, not stable): every permutation
\* of the indices that puts radii in non-decreasing order
RECURSIVE Orderings(_, _)
Orderings(radii, S) ==
    IF S = {} THEN {<<>>}
    ELSE UNION {{<<i>> \o o : o \in Orderings(radii, S \ {i})} :
                i \in {j \in S : \A k \in S : radii[j] <= radii[k]}}
np_argsort(radii) == Orderings(radii, DOMAIN radii)

RECURSIVE WeightedSum(_)
WeightedSum(ix) ==
    IF ix = <<>> THEN 0
    ELSE masses[Head(ix)] * positions[Head(ix)] + WeightedSum(Tail(ix))

RECURSIVE MassSum(_)
MassSum(ix) == IF ix = <<>> THEN 0 ELSE masses[Head(ix)] + MassSum(Tail(ix))

RECURSIVE Concat(_)
Concat(ss) == IF ss = <<>> THEN <<>> ELSE Head(ss) \o Concat(Tail(ss))

----------------------------------------------------------------------------
(* the Universe *)

\* Residue.atoms: the atoms of one residue, by index
atoms_of_resid(r) == SortedSeq({a \in Atoms : resids[a] = r})

\* ResidueGroup.atoms: the residues' atoms, residue after residue
residue_group_atoms(rs) == Concat([i \in 1..Len(rs) |-> atoms_of_resid(rs[i])])

\* residues_atoms without the step to whole residues: the atoms given
residues_atoms_partial(ix) == ix

\* AtomGroup.residues.atoms: the distinct residues of the atoms, sorted, and
\* all the atoms of each
residues_atoms(ix) == residue_group_atoms(np_unique(Gather(resids, ix)))

\* AtomGroup.resids
group_resids(ix) == Gather(resids, ix)

\* u.select_atoms('index i')
select_index(i) == SortedSeq({a \in Atoms : a = i})

\* u.select_atoms('resid r1 r2 ...'): the atoms whose resid is listed, by index
select_resid(rs) == SortedSeq({a \in Atoms : resids[a] \in Range(rs)})

\* AtomGroup.center_of_mass(): the mass-weighted mean position, as num/den
center_of_mass(ix) == [num |-> WeightedSum(ix), den |-> MassSum(ix)]

\* the minimum-image separation of atom a from coords on the periodic line of
\* length box, in units of 1/coords.den
minimum_image(coords, a, box) ==
    LET r == Abs(coords.den * positions[a] - coords.num) % (coords.den * box)
    IN Min2(r, coords.den * box - r)

\* distance_array called without the box: straight-line separations
distance_array_no_box(coords, ix, box) ==
    [i \in 1..Len(ix) |-> Abs(coords.den * positions[ix[i]] - coords.num)]

\* distances.distance_array(coords, group.positions, box=u.dimensions)[0]
distance_array(coords, ix, box) ==
    [i \in 1..Len(ix) |-> minimum_image(coords, ix[i], box)]

\* u.select_atoms('point x radius'): the atoms within radius of the point,
\* periodic images included, by index
select_point(coords, radius) ==
    IF coords.den = 0 THEN <<>>  \* the centre of no atoms is nan: nothing is near it
    ELSE SortedSeq({a \in Atoms : minimum_image(coords, a, Box) <= coords.den * radius})

----------------------------------------------------------------------------
(* values *)

Sel(type, ix) == [type |-> type, ix |-> ix]
NoGroup == Sel("None", <<>>)
NoArgs == [selection |-> NoGroup, n |-> 0, radius |-> 0, ignore |-> NoGroup]
\* a result: the exception raised, or the type of the value returned and its
\* parts: the atoms of a group, the shells of a list, the resids and the
\* distances (radii over den) of a tuple
NoResult == [exc |-> "", type |-> "unset", ix |-> <<>>, shells |-> <<>>,
             resids |-> <<>>, radii |-> <<>>, den |-> 1]
Raise(e) == [NoResult EXCEPT !.exc = e, !.type = "exception"]
ReturnGroup(s) == [NoResult EXCEPT !.type = s.type, !.ix = s.ix]
ReturnNone == [NoResult EXCEPT !.type = "None"]
ReturnTuple(full_shell, rs, radii, den) ==
    [NoResult EXCEPT !.type = "tuple", !.ix = full_shell, !.resids = rs,
                     !.radii = radii, !.den = den]

\* isinstance(selection, types)
isinstance(selection, types) == selection.type \in types

GroupTypes == {"Residue", "ResidueGroup", "Atom", "AtomGroup"}

----------------------------------------------------------------------------
(* solvation.py *)

\* the failed assertion of get_atom_group is how the code reports a reference
\* of a type it does not take
InvalidReferenceType == "AssertionError"

\* get_atom_group without lines 50-51: an Atom is returned as it came
get_atom_group_keeps_atom(selection) ==
    IF ~isinstance(selection, GroupTypes) THEN Raise(InvalidReferenceType)
    ELSE IF isinstance(selection, {"Residue", "ResidueGroup"})
         THEN ReturnGroup(Sel("AtomGroup", residue_group_atoms(selection.ix)))
         ELSE ReturnGroup(selection)

\* get_atom_group without the assertion of lines 43-47
get_atom_group_unchecked(selection) ==
    LET s1 == IF isinstance(selection, {"Residue", "ResidueGroup"})
              THEN Sel("AtomGroup", residue_group_atoms(selection.ix))
              ELSE selection
        s2 == IF isinstance(s1, {"Atom"})
              THEN Sel("AtomGroup", select_index(s1.ix[1]))
              ELSE s1
    IN ReturnGroup(s2)

\* get_atom_group(u, selection): the group, or the failed assertion
get_atom_group(selection) ==
    IF ~isinstance(selection, GroupTypes) THEN Raise(InvalidReferenceType)
    ELSE LET s1 == IF isinstance(selection, {"Residue", "ResidueGroup"})
                   THEN Sel("AtomGroup", residue_group_atoms(selection.ix))
                   ELSE selection
             s2 == IF isinstance(s1, {"Atom"})
                   THEN Sel("AtomGroup", select_index(s1.ix[1]))
                   ELSE s1
         IN ReturnGroup(s2)

\* get_radial_shell(u, central_species, radius): [out, queries]
get_radial_shell(central_species, radius) ==
    LET cs == get_atom_group(central_species)
    IN IF cs.exc # "" THEN [out |-> cs, queries |-> 0]
       ELSE LET coords == center_of_mass(cs.ix)
                partial_shell == select_point(coords, radius)
                full_shell == residues_atoms(partial_shell)
            IN [out |-> ReturnGroup(Sel("AtomGroup", full_shell)), queries |-> 1]

\* get_n_shells(u, central_species, n_shell, radius, ignore_atoms):
\* [out, queries, warned]; the body ends after ignore_atoms is defaulted, so
\* the function returns None
get_n_shells(central_species, n_shell, radius, ignore_atoms) ==
    LET w == n_shell > WarnNShell
        cs == get_atom_group(central_species)
    IN IF cs.exc # "" THEN [out |-> cs, queries |-> 0, warned |-> w]
       ELSE LET ignore == IF ignore_atoms.type = "None" \/ Len(ignore_atoms.ix) = 0
                          THEN Sel("AtomGroup", <<>>)
                          ELSE ignore_atoms
            IN [out |-> ReturnNone, queries |-> 0, warned |-> w]

\* line 117 without np.sort: the first places in the order of the resids
closest_n_resix_unsorted(ordered_resids, n_mol) ==
    Take(np_unique_index(ordered_resids), n_mol + 1)

\* line 117: the places, in ordered_resids, of the first atom of each of the
\* first residues met
closest_n_resix(ordered_resids, n_mol) ==
    Take(np_sort(np_unique_index(ordered_resids)), n_mol + 1)

\* get_closest_n_mol(u, central_species, n_mol, radius): the outcomes of one
\* call, the nested call of line 113 left to the caller: a raise, a nested call
\* with its arguments, or a return for each ordering argsort may give
get_closest_n_mol(central_species, n_mol, radius) ==
    LET cs == get_atom_group(central_species)
    IN IF cs.exc # "" THEN {[kind |-> "raise", out |-> cs, queries |-> 0, next |-> NoArgs]}
       ELSE LET coords == center_of_mass(cs.ix)
                partial_shell == select_point(coords, radius)
                shell_resids == group_resids(partial_shell)
            IN IF Len(np_unique(shell_resids)) < n_mol + 1
               THEN {[kind |-> "nested", out |-> NoResult, queries |-> 1,
                      next |-> [selection |-> Sel(cs.type, cs.ix), n |-> n_mol,
                                radius |-> radius + 1, ignore |-> NoGroup]]}
               ELSE LET radii == distance_array(coords, partial_shell, Box)
                    IN {LET ordered_resids == Gather(shell_resids, ordering)
                            resix == closest_n_resix(ordered_resids, n_mol)
                            picked == Gather(ordered_resids, resix)
                            full_shell == select_resid(picked)
                        IN [kind |-> "return",
                            out |-> ReturnTuple(full_shell, picked,
                                                Gather(Gather(radii, ordering), resix),
                                                coords.den),
                            queries |-> 1, next |-> NoArgs]
                        : ordering \in np_argsort(radii)}

----------------------------------------------------------------------------
(* inputs *)

\* the slices lo..hi of 1..n, forwards (u.atoms[lo:hi]) and backwards
\* (u.atoms[hi:lo:-1])
Slices(n) ==
    LET Ends == {e \in (1..n) \X (1..n) : e[1] <= e[2]}
    IN {[i \in 1..(e[2] - e[1] + 1) |-> e[1] + i - 1] : e \in Ends}
       \cup {[i \in 1..(e[2] - e[1] + 1) |-> e[2] - i + 1] : e \in Ends}

\* topologies: residues are runs of consecutive atoms, resids count from 1
Topologies ==
    {t \in [Atoms -> Atoms] :
        /\ t[1] = 1
        /\ \A a \in Atoms \ {1} : t[a] \in {t[a - 1], t[a - 1] + 1}}

Resids == Range(resids)

Selections ==
    {Sel("Atom", <<a>>) : a \in Atoms}
    \cup {Sel("AtomGroup", s) : s \in Slices(NAtoms)}
    \cup {Sel("Residue", <<r>>) : r \in Resids}
    \cup {Sel("ResidueGroup", s) : s \in Slices(Cardinality(Resids))}
    \cup {Sel("str", <<>>)}

IgnoreAtoms == {NoGroup, Sel("AtomGroup", <<>>), Sel("AtomGroup", <<NAtoms>>)}

----------------------------------------------------------------------------
(* the state machine *)

\* the masses: every residue's first atom is the heavy one
HeavyFirst(t) == [a \in Atoms |-> IF a = 1 \/ t[a] # t[a - 1] THEN MaxMass ELSE 1]

NoCall ==
    /\ pc = "ready"
    /\ func = "none"
    /\ args = NoArgs
    /\ result = NoResult
    /\ queries = 0
    /\ warned = FALSE
    /\ depth = 0

\* no two atoms of a frame are at one place
Placements ==
    {p \in [Atoms -> 0..(Box - 1)] : \A a, b \in Atoms : a # b => p[a] # p[b]}

\* any frame
Init ==
    /\ positions \in Placements
    /\ resids \in Topologies
    /\ masses = HeavyFirst(resids)
    /\ NoCall

\* any topology, the atoms in a row
InitRow ==
    /\ positions = [a \in Atoms |-> (a - 1) % Box]
    /\ resids \in Topologies
    /\ masses = HeavyFirst(resids)
    /\ NoCall

Finish(out) ==
    /\ result' = out
    /\ pc' = IF out.exc # "" THEN "raised" ELSE "returned"

\* a call of get_atom_group
CallGetAtomGroup ==
    /\ pc = "ready"
    /\ \E selection \in Selections :
        /\ func' = "get_atom_group"
        /\ args' = [NoArgs EXCEPT !.selection = selection]
        /\ Finish(get_atom_group(selection))
    /\ UNCHANGED <<frame, queries, warned, depth>>

\* get_atom_group called again, on the group it returned
CallGetAtomGroupAgain ==
    /\ pc = "returned"
    /\ func = "get_atom_group"
    /\ depth = 0
    /\ args' = [NoArgs EXCEPT !.selection = Sel(result.type, result.ix)]
    /\ Finish(get_atom_group(Sel(result.type, result.ix)))
    /\ depth' = 1
    /\ UNCHANGED <<frame, func, queries, warned>>

\* a call of get_radial_shell
CallGetRadialShell ==
    /\ pc = "ready"
    /\ \E selection \in Selections, radius \in 1..MaxRadius :
        LET r == get_radial_shell(selection, radius)
        IN /\ func' = "get_radial_shell"
           /\ args' = [NoArgs EXCEPT !.selection = selection, !.radius = radius]
           /\ Finish(r.out)
           /\ queries' = r.queries
    /\ UNCHANGED <<frame, warned, depth>>

\* a call of get_n_shells
CallGetNShells ==
    /\ pc = "ready"
    /\ \E selection \in Selections, n_shell \in 0..MaxNShell,
          radius \in 1..MaxRadius, ignore_atoms \in IgnoreAtoms :
        LET r == get_n_shells(selection, n_shell, radius, ignore_atoms)
        IN /\ func' = "get_n_shells"
           /\ args' = [selection |-> selection, n |-> n_shell, radius |-> radius,
                       ignore |-> ignore_atoms]
           /\ Finish(r.out)
           /\ queries' = r.queries
           /\ warned' = r.warned
    /\ UNCHANGED <<frame, depth>>

\* one call of get_closest_n_mol with the arguments a, up to its return, its
\* raise or the nested call it makes
ClosestStep(a) ==
    \E o \in get_closest_n_mol(a.selection, a.n, a.radius) :
        /\ queries' = queries + o.queries
        /\ IF o.kind = "nested"
           THEN /\ pc' = "nested"
                /\ args' = o.next
                /\ result' = result
           ELSE /\ args' = a
                /\ Finish(o.out)

\* a call of get_closest_n_mol
CallGetClosestNMol ==
    /\ pc = "ready"
    /\ \E selection \in Selections, n_mol \in 1..MaxNMol, radius \in 1..MaxRadius :
        /\ func' = "get_closest_n_mol"
        /\ ClosestStep([NoArgs EXCEPT !.selection = selection, !.n = n_mol,
                                      !.radius = radius])
    /\ UNCHANGED <<frame, warned, depth>>

\* the nested call of line 113, with radius + 1
NestedGetClosestNMol ==
    /\ pc = "nested"
    /\ depth < MaxExpansions
    /\ depth' = depth + 1
    /\ ClosestStep(args)
    /\ UNCHANGED <<frame, func, warned>>

\* the queries that read the positions, on any frame
Next ==
    \/ CallGetRadialShell
    \/ CallGetClosestNMol
    \/ NestedGetClosestNMol

Spec == Init /\ [][Next]_vars

\* every function, on the frames of InitRow
NextResolve ==
    \/ CallGetAtomGroup
    \/ CallGetAtomGroupAgain
    \/ CallGetNShells
    \/ CallGetRadialShell
    \/ CallGetClosestNMol
    \/ NestedGetClosestNMol

SpecResolve == InitRow /\ [][NextResolve]_vars

----------------------------------------------------------------------------
(* what the properties speak of *)

Returned(f) == pc = "returned" /\ func = f

\* the central species of the call: its atoms, its residues, its centre
CentralAtoms == Range(get_atom_group(args.selection).ix)
CentralResids == {resids[a] : a \in CentralAtoms}
OtherResids == Resids \ CentralResids
Centre == center_of_mass(get_atom_group(args.selection).ix)

AtomsOf(rs) == {a \in Atoms : resids[a] \in rs}
ResidsOf(as) == {resids[a] : a \in as}

\* the periodic distance of atom a from c, by its definition: the least
\* separation of c from any image of the atom (in units of 1/c.den)
ImageDistance(c, a) ==
    SetMin({Abs(c.den * (positions[a] + k * Box) - c.num) : k \in -1..1})
StraightDistance(c, a) == Abs(c.den * positions[a] - c.num)

\* the distance of a molecule: that of its nearest atom
MolDistance(c, r) == SetMin({ImageDistance(c, a) : a \in AtomsOf({r})})

\* the distances of all the molecules of the frame, least first
AllMolDistances(c) ==
    LET rs == SortedSeq(Resids)
    IN np_sort([k \in 1..Len(rs) |-> MolDistance(c, rs[k])])

NonDecreasing(s) == \A i \in 1..(Len(s) - 1) : s[i] <= s[i + 1]

\* the radius of the last call made holds every atom of the box
RadiusCoversBox(radius) == 2 * radius >= Box

----------------------------------------------------------------------------
(* get_closest_n_mol *)

\* C1 (as claimed): a call of get_closest_n_mol that returns gives
\* min(n_mol, number of molecules other than the central species' own)
\* distinct molecules, in the resids and in the atom group alike.
C1_CountIsN ==
    Returned("get_closest_n_mol") =>
        /\ Cardinality(Range(result.resids))
             = Min2(args.n, Cardinality(OtherResids))
        /\ Cardinality(ResidsOf(Range(result.ix)))
             = Min2(args.n, Cardinality(OtherResids))

\* C2 (as claimed): the central species' own molecule is never in what
\* get_closest_n_mol returns, neither by resid nor by atom.
C2_CentralExcluded ==
    Returned("get_closest_n_mol") =>
        /\ Range(result.resids) \cap CentralResids = {}
        /\ Range(result.ix) \cap AtomsOf(CentralResids) = {}

\* C3: what get_closest_n_mol returns are the nearest molecules by periodic
\* distance: each distance returned is the least periodic distance of an atom
\* of its molecule from the centre, no molecule left out is strictly nearer
\* than one returned, and the distances returned are the least molecule
\* distances of the frame, whatever radius the search stopped at; the atom
\* group holds the whole of the molecules returned.
C3_NearestByPeriodicDistance ==
    Returned("get_closest_n_mol") =>
        /\ Len(result.resids) = Len(result.radii)
        /\ result.den = Centre.den
        /\ \A i \in DOMAIN result.radii :
             result.radii[i] = MolDistance(Centre, result.resids[i])
        /\ \A r \in Resids \ Range(result.resids) :
             \A i \in DOMAIN result.radii : MolDistance(Centre, r) >= result.radii[i]
        /\ result.radii = Take(AllMolDistances(Centre), Len(result.radii))
        /\ Range(result.ix) = AtomsOf(Range(result.resids))

\* a call that returned after the radius grew: a molecule of the result is
\* nearer through the periodic boundary than in a straight line, and a
\* molecule left out is nearer than it in a straight line
C3_Witness ==
    /\ Returned("get_closest_n_mol")
    /\ depth >= 1
    /\ \E i \in DOMAIN result.resids :
         \E r \in Resids \ Range(result.resids) :
            \A a \in AtomsOf({result.resids[i]}) :
               /\ StraightDistance(Centre, a) > result.radii[i]
               /\ \E b \in AtomsOf({r}) :
                    StraightDistance(Centre, b) < StraightDistance(Centre, a)

\* C4: the distances get_closest_n_mol returns are non-decreasing, and the
\* i-th resid is a molecule whose least distance is the i-th distance, no
\* molecule listed twice.
C4_DistancesSorted ==
    Returned("get_closest_n_mol") =>
        /\ Len(result.resids) = Len(result.radii)
        /\ NonDecreasing(result.radii)
        /\ \A i, j \in DOMAIN result.resids :
             i # j => result.resids[i] # result.resids[j]
        /\ \A i \in DOMAIN result.resids :
             \E a \in AtomsOf({result.resids[i]}) :
                /\ ImageDistance(Centre, a) = result.radii[i]
                /\ \A b \in AtomsOf({result.resids[i]}) :
                     ImageDistance(Centre, b) >= result.radii[i]

\* three molecules returned at three distances, the resids not in their own
\* order
C4_Witness ==
    /\ Returned("get_closest_n_mol")
    /\ Len(result.resids) = 3
    /\ result.radii[1] < result.radii[2]
    /\ result.radii[2] < result.radii[3]
    /\ result.resids[1] > result.resids[2]

\* C8 (as claimed): on a frame with fewer than n_mol molecules other than the
\* central species' own, get_closest_n_mol does not return, makes no nested
\* call once a radius that holds the whole box has been tried, and what it
\* raises is InsufficientCandidates; on a frame with n_mol + 1 molecules or
\* more no nested call is made after such a radius either.
C8_InsufficientCandidates ==
    (/\ func = "get_closest_n_mol"
     /\ isinstance(args.selection, GroupTypes)
     /\ Cardinality(CentralResids) = 1) =>
        /\ Cardinality(OtherResids) < args.n =>
             /\ pc # "returned"
             /\ pc = "nested" => ~RadiusCoversBox(args.radius - 1)
             /\ pc = "raised" => result.exc = "InsufficientCandidates"
        /\ Cardinality(Resids) >= args.n + 1 =>
             (pc = "nested" => ~RadiusCoversBox(args.radius - 1))

----------------------------------------------------------------------------
(* get_radial_shell *)

\* C5: get_radial_shell returns the molecules touched and each of them whole:
\* a molecule is in the result if and only if one of its atoms is within the
\* radius of the centre of mass, by periodic distance, and every atom of such
\* a molecule is in the group returned, once.
C5_WholeTouchedMolecules ==
    Returned("get_radial_shell") =>
        LET touched == ResidsOf({a \in Atoms :
                          ImageDistance(Centre, a) <= Centre.den * args.radius})
        IN /\ result.type = "AtomGroup"
           /\ ResidsOf(Range(result.ix)) = touched
           /\ Range(result.ix) = AtomsOf(touched)
           /\ Len(result.ix) = Cardinality(Range(result.ix))

\* a molecule returned whole with an atom beyond the radius, another left out
C5_Witness ==
    /\ Returned("get_radial_shell")
    /\ \E a \in Range(result.ix) :
         ImageDistance(Centre, a) > Centre.den * args.radius
    /\ Resids \ ResidsOf(Range(result.ix)) # {}

----------------------------------------------------------------------------
(* get_n_shells *)

\* C6 (as claimed): get_n_shells returns a list whose element 0 is the
\* central species' own molecules, and with n_shell = 0 a list of that one
\* shell.
C6_ShellZeroIsCentral ==
    Returned("get_n_shells") =>
        /\ result.type = "list"
        /\ Len(result.shells) >= 1
        /\ ResidsOf(Range(result.shells[1])) = CentralResids
        /\ args.n = 0 => Len(result.shells) = 1

\* C7 (as claimed): get_n_shells returns a list of shells, the central species
\* first, no molecule in two of them and no molecule of ignore_atoms in any.
C7_ShellsDisjoint ==
    Returned("get_n_shells") =>
        /\ result.type = "list"
        /\ Len(result.shells) >= 1
        /\ \A i, j \in DOMAIN result.shells :
             i # j => ResidsOf(Range(result.shells[i]))
                        \cap ResidsOf(Range(result.shells[j])) = {}
        /\ \A i \in DOMAIN result.shells :
             ResidsOf(Range(result.shells[i])) \cap ResidsOf(Range(args.ignore.ix)) = {}

----------------------------------------------------------------------------
(* get_atom_group *)

\* C9: get_atom_group returns an atom group that it maps to itself; called
\* again on the group it returned it returns the same group; a residue or a
\* residue group gives the atoms of its residues, and an atom the group of
\* that atom alone.
C9_ResolveIdempotent ==
    Returned("get_atom_group") =>
        LET selection == args.selection
        IN /\ result.type = "AtomGroup"
           /\ get_atom_group(Sel(result.type, result.ix)) = result
           /\ depth = 1 => result = ReturnGroup(selection)
           /\ selection.type = "AtomGroup" => result.ix = selection.ix
           /\ selection.type \in {"Residue", "ResidueGroup"} =>
                Range(result.ix) = AtomsOf(Range(selection.ix))
           /\ selection.type = "Atom" => result.ix = <<selection.ix[1]>>

\* the group of a residue group of two atoms or more, resolved a second time
C9_Witness ==
    /\ Returned("get_atom_group")
    /\ depth = 1
    /\ Len(result.ix) >= 2
    /\ Cardinality(ResidsOf(Range(result.ix))) >= 2

\* C10: a call of any of the four functions with a reference that is no atom,
\* atom group, residue or residue group raises the failed assertion, returns
\* nothing, and has issued no 'point' selection.
C10_InvalidReferenceRaises ==
    (func # "none" /\ ~isinstance(args.selection, GroupTypes)) =>
        /\ pc = "raised"
        /\ result.exc = InvalidReferenceType
        /\ result.ix = <<>> /\ result.shells = <<>> /\ result.resids = <<>>
        /\ queries = 0

\* get_closest_n_mol called with such a reference has raised
C10_Witness ==
    /\ func = "get_closest_n_mol"
    /\ args.selection.type = "str"
    /\ pc = "raised"

====
